---------------------------- MODULE Spec2Model ----------------------------
(***************************************************************************)
(* A model of the Streamlit image/video processing web application.        *)
(*                                                                         *)
(*   src/app.py             main(): one script run per user interaction    *)
(*   src/frame_processor.py FrameProcessor.process: per-frame progress     *)
(*   src/models.py          ModelA/B/C/CustomModel.execute: the rectangle  *)
(*                                                                         *)
(* Spec             the session as the browser drives it: script runs of   *)
(*                  main(), stepped through the image loop and the video   *)
(*                  pipeline, the model one of the selectbox's options.    *)
(* SpecAnySelection the same with any model name handed to the dispatch.   *)
(* SpecTransform    the Transform variants applied to pixel grids.         *)
(***************************************************************************)
EXTENDS Integers, Sequences, FiniteSets, TLC

VARIABLES
    session_state,    \* st.session_state: a mapping from the keys present to values
    pc,               \* position of the script run: "idle" between runs,
                      \* "done" when main() has returned or raised
    media_type,       \* widget value of this run (app.py:115)
    uploaded_files,   \* widget value of this run (app.py:117-129)
    model_config,     \* widget value of this run (app.py:132)
    process_button,   \* widget value of this run (app.py:166)
    clip,             \* what VideoFileClip finds in the uploaded video
    model_instance,   \* the Transform constructed by this run, or None
    processed_images, \* the local list of (name, image) pairs (app.py:196)
    frame_processor,  \* the FrameProcessor: [total_frames, frame_count], or None
    progress_bar,     \* the values passed to progress_bar.progress after a unit
    tmp_files,        \* temporary files of this request that exist on disk
    leaked,           \* temporary files earlier requests left on disk
    shown,            \* what column 2 rendered in this run
    raised,           \* the exception that ended this run, or "none"
    ran,              \* the pipeline steps this run has executed
    started,          \* session_state as it was when this run started
    timage,           \* SpecTransform: the input image
    tmodel,           \* SpecTransform: the Transform variant and its params
    tresult           \* SpecTransform: what execute returned, or None

vars == <<session_state, pc, media_type, uploaded_files, model_config,
          process_button, clip, model_instance, processed_images,
          frame_processor, progress_bar, tmp_files, leaked, shown, raised, ran,
          started, timage, tmodel, tresult>>

sessionVars == <<session_state, pc, media_type, uploaded_files, model_config,
                 process_button, clip, model_instance, processed_images,
                 frame_processor, progress_bar, tmp_files, leaked, shown,
                 raised, ran, started>>

transformVars == <<timage, tmodel, tresult>>

\* Python's None, where a variable holds an object or nothing.
None == [none |-> TRUE]

\* No Transform class: the else branch of the dispatch.
NoClass == "None"

(***************************************************************************)
(* Bounds of the model.                                                    *)
(***************************************************************************)
MaxUploads == 2     \* longest list of uploaded images
MaxFrames == 3      \* most frames a clip delivers, largest declared count
MaxDim == 7         \* largest small image side of SpecTransform

(***************************************************************************)
(* Inputs.                                                                 *)
(***************************************************************************)
MediaTypes == {"Images", "Video"}

\* app.py:132-136: the options of the model selectbox.
SelectboxOptions == {"Model A", "Model B", "Model C"}

\* The names the dispatch of main() can be handed when the selection is not
\* taken to come from the selectbox: its options, and "Model X" for every
\* string its else branch (app.py:190-192) is there for.
ModelNames == SelectboxOptions \cup {"Model X"}

\* An uploaded file: its name and its bytes ("bad" bytes do not decode).  Two
\* uploads may carry the same name.
ImageUploads ==
    {[name |-> "a.png", data |-> "img1"], [name |-> "b.png", data |-> "img2"],
     [name |-> "a.png", data |-> "bad"]}
VideoUploads == [name : {"clip.mp4"}, data : {"vid"}]

RECURSIVE SeqsUpTo(_, _)
SeqsUpTo(S, n) ==
    IF n = 0 THEN {<<>>}
    ELSE LET shorter == SeqsUpTo(S, n - 1)
         IN shorter \cup {Append(s, x) : s \in {t \in shorter : Len(t) = n - 1}, x \in S}

\* The color widgets' value (app.py:144-152, the defaults).
WidgetColor == <<0, 255, 0>>

\* What VideoFileClip reports of a container it can open: the declared frame
\* count (absent, 0 or positive), fps and the duration in quarter seconds
\* (exact in binary floating point), and the number of frames the reader
\* delivers to the writer, which is a property of the stream and not of the
\* header.  The timings give fps * duration = 60, 0.75, 0.5 and 1.5.
ClipTimings == {<<30, 8>>, <<3, 1>>, <<1, 2>>, <<3, 2>>}
NoCount == [present |-> FALSE, count |-> 0]
Declared(n) == [present |-> TRUE, count |-> n]
Clips ==
    {[nframes |-> d, fps |-> t[1], durq |-> t[2], frames |-> n] :
        d \in {NoCount} \cup {Declared(k) : k \in 0..MaxFrames},
        t \in ClipTimings,
        n \in 1..MaxFrames}

(***************************************************************************)
(* st.session_state: a function whose domain is the set of keys present.   *)
(***************************************************************************)
Put(ss, k, v) == [x \in DOMAIN ss \cup {k} |-> IF x = k THEN v ELSE ss[x]]

Pop(ss, k) == [x \in DOMAIN ss \ {k} |-> ss[x]]

\* app.py:170-171
EnsureProcessedKey(ss) ==
    IF "processed" \notin DOMAIN ss THEN Put(ss, "processed", FALSE) ELSE ss

\* app.py:175-179
ClearPrevious(ss, mt) ==
    Pop(Pop(Pop(Put(Put(ss, "processed", TRUE), "media_type", mt),
                "processed_images"), "video_bytes"), "zip_bytes")

\* A guard that forgets the uploads: every press of Process is a request.
ShouldProcessOnAnyPress(btn, files) == btn

\* app.py:173
ShouldProcess(btn, files) == btn /\ files # <<>>

\* app.py:298
MissingUpload(btn, files) == files = <<>> /\ btn

\* app.py:300
ShouldRedisplay(ss) == "processed" \in DOMAIN ss /\ ss["processed"] = TRUE

\* A dispatch that falls back to Model A instead of refusing the name.
ModelRegistryDefaulting(name) ==
    CASE name = "Model B" -> "ModelB"
      [] name = "Model C" -> "ModelC"
      [] OTHER -> "ModelA"

\* app.py:184-192: the Transform class a selection names, NoClass for the
\* else branch.
ModelRegistry(name) ==
    CASE name = "Model A" -> "ModelA"
      [] name = "Model B" -> "ModelB"
      [] name = "Model C" -> "ModelC"
      [] OTHER -> NoClass

\* app.py:181
Params(color) == [color |-> color]

(***************************************************************************)
(* The collaborators of the pipelines, by what main() relies on.           *)
(***************************************************************************)
\* app.py:201-204: cv2.imdecode returns None for bytes that are no image.
Imdecode(file) == IF file.data = "bad" THEN None ELSE [pixels |-> file.data]

\* app.py:205 inside the session model: the image a Transform returns,
\* identified by the variant, its color and the image it was applied to
\* (SpecTransform models the pixels).
Executed(inst, image) ==
    [model |-> inst.class, color |-> inst.params.color, of |-> image.pixels]

\* An archive that keeps one entry per name: a later entry of the same name
\* replaces the earlier one.
ZipWriteReplacing(zip, name, img) ==
    IF \E i \in 1..Len(zip) : zip[i].arcname = name
    THEN [i \in 1..Len(zip) |->
              IF zip[i].arcname = name THEN [arcname |-> name, data |-> img]
              ELSE zip[i]]
    ELSE Append(zip, [arcname |-> name, data |-> img])

\* app.py:214-218: ZipFile.write appends one entry per call, under arcname.
ZipWrite(zip, name, img) == Append(zip, [arcname |-> name, data |-> img])

RECURSIVE ZipAll(_, _)
ZipAll(zip, pairs) ==
    IF pairs = <<>> THEN zip
    ELSE ZipAll(ZipWrite(zip, Head(pairs)[1], Head(pairs)[2]), Tail(pairs))

\* app.py:207: the fraction (idx + 1) / total_images, as <<numerator, denominator>>.
ImageProgress(idx, total) == <<idx + 1, total>>

\* frame_processor.py:21: min(frame_count / total_frames, 1.0); total is not 0.
FrameProgress(count, total) == IF count >= total THEN <<1, 1>> ELSE <<count, total>>

\* A fallback taken only when the count is absent, not when it is 0.
TotalFramesUnlessAbsent(c) ==
    IF ~c.nframes.present THEN (c.fps * c.durq) \div 4 ELSE c.nframes.count

\* app.py:256-258: int() truncates fps * duration toward zero.
TotalFrames(c) ==
    IF ~c.nframes.present \/ c.nframes.count = 0
    THEN (c.fps * c.durq) \div 4
    ELSE c.nframes.count

\* app.py:267-282: the encoded output of write_videofile, read back.
VideoBytes(inst, n) ==
    [codec |-> "libx264", audio |-> FALSE, model |-> inst.class, frames |-> n]

(***************************************************************************)
(* The session before the first script run.                                *)
(***************************************************************************)
NoSession == [k \in {} |-> None]

SessionInit ==
    /\ session_state = NoSession
    /\ pc = "idle"
    /\ media_type = "Images"
    /\ uploaded_files = <<>>
    /\ model_config = "Model A"
    /\ process_button = FALSE
    /\ clip = None
    /\ model_instance = None
    /\ processed_images = <<>>
    /\ frame_processor = None
    /\ progress_bar = <<>>
    /\ tmp_files = {}
    /\ leaked = {}
    /\ shown = "none"
    /\ raised = "none"
    /\ ran = {}
    /\ started = NoSession

\* The page has not been rendered yet: no button to press, no upload made.
FirstRun == "processed" \notin DOMAIN session_state

\* The keys the redisplay branch reads (app.py:302-324).
RedisplayKeys(ss) ==
    IF ss["media_type"] = "Images" THEN {"processed_images", "zip_bytes"}
    ELSE {"video_bytes"}

(***************************************************************************)
(* main(), app.py:109-192 and 298-324: the widgets' values arrive, then    *)
(* column 2 takes one of its branches.  A processing request continues in  *)
(* the image loop or the video pipeline; every other branch ends the run.  *)
(***************************************************************************)
BeginRun(mt, files, mc, btn) ==
    /\ pc = "idle"
    /\ FirstRun => (~btn /\ files = <<>>)
    /\ media_type' = mt
    /\ uploaded_files' = files
    /\ model_config' = mc
    /\ process_button' = btn
    /\ started' = session_state
    /\ clip' = None
    /\ processed_images' = <<>>
    /\ frame_processor' = None
    /\ progress_bar' = <<>>
    /\ ran' = {}
    /\ UNCHANGED leaked
    /\ LET ss == EnsureProcessedKey(session_state)
           class == ModelRegistry(mc)
       IN IF ShouldProcess(btn, files)
          THEN /\ session_state' = ClearPrevious(ss, mt)
               /\ raised' = "none"
               /\ IF class = NoClass
                  THEN \* app.py:191-192
                       /\ model_instance' = None
                       /\ shown' = "error"
                       /\ tmp_files' = {}
                       /\ pc' = "done"
                  ELSE /\ model_instance' = [class |-> class,
                                             params |-> Params(WidgetColor)]
                       /\ shown' = "none"
                       /\ IF mt = "Images"
                          THEN /\ tmp_files' = {}
                               /\ pc' = "images"
                          ELSE \* app.py:239-249
                               /\ tmp_files' = {"tfile", "video_path"}
                               /\ pc' = "video_open"
          ELSE /\ session_state' = ss
               /\ model_instance' = None
               /\ tmp_files' = {}
               /\ pc' = "done"
               /\ IF MissingUpload(btn, files)
                  THEN /\ shown' = "warning"
                       /\ raised' = "none"
                  ELSE IF ShouldRedisplay(ss)
                  THEN IF RedisplayKeys(ss) \subseteq DOMAIN ss
                       THEN /\ shown' = ss["media_type"]
                            /\ raised' = "none"
                       ELSE /\ shown' = "none"
                            /\ raised' = "KeyError"
                  ELSE /\ shown' = "none"
                       /\ raised' = "none"

\* app.py:199-207: one iteration of the image loop.  execute(None) raises
\* AttributeError at image.copy(), which ends the run.
ProcessImage ==
    /\ pc = "images"
    /\ Len(processed_images) < Len(uploaded_files)
    /\ LET idx == Len(processed_images)
           uploaded_file == uploaded_files[idx + 1]
           image == Imdecode(uploaded_file)
       IN IF image = None
          THEN /\ raised' = "AttributeError"
               /\ ran' = ran \cup {"decode"}
               /\ pc' = "done"
               /\ UNCHANGED <<processed_images, progress_bar>>
          ELSE /\ processed_images' =
                      Append(processed_images,
                             <<uploaded_file.name, Executed(model_instance, image)>>)
               /\ progress_bar' =
                      Append(progress_bar, ImageProgress(idx, Len(uploaded_files)))
               /\ ran' = ran \cup {"decode", "execute"}
               /\ UNCHANGED <<raised, pc>>
    /\ UNCHANGED <<session_state, media_type, uploaded_files, model_config,
                   process_button, clip, model_instance, frame_processor,
                   tmp_files, leaked, shown, started>>

\* app.py:208-236: the loop is over; cache, archive, display.
FinishImages ==
    /\ pc = "images"
    /\ Len(processed_images) = Len(uploaded_files)
    /\ session_state' =
           Put(Put(session_state, "processed_images", processed_images),
               "zip_bytes", ZipAll(<<>>, processed_images))
    /\ ran' = ran \cup {"encode"}
    /\ shown' = "Images"
    /\ pc' = "done"
    /\ UNCHANGED <<media_type, uploaded_files, model_config, process_button,
                   clip, model_instance, processed_images, frame_processor,
                   progress_bar, tmp_files, leaked, raised, started>>

\* app.py:253-264: VideoFileClip opens the temporary input.
OpenClip ==
    /\ pc = "video_open"
    /\ \E c \in Clips :
           /\ clip' = c
           /\ frame_processor' = [total_frames |-> TotalFrames(c), frame_count |-> 0]
    /\ ran' = ran \cup {"decode"}
    /\ pc' = "video_write"
    /\ UNCHANGED <<session_state, media_type, uploaded_files, model_config,
                   process_button, model_instance, processed_images,
                   progress_bar, tmp_files, leaked, shown, raised, started>>

\* app.py:253: VideoFileClip raises on bytes that are no video.
OpenClipFails ==
    /\ pc = "video_open"
    /\ raised' = "IOError"
    /\ ran' = ran \cup {"decode"}
    /\ pc' = "done"
    /\ UNCHANGED <<session_state, media_type, uploaded_files, model_config,
                   process_button, clip, model_instance, processed_images,
                   frame_processor, progress_bar, tmp_files, leaked, shown, started>>

\* frame_processor.py:13-23, called once per frame by write_videofile
\* (app.py:266-267).  The division raises when total_frames is 0.
ProcessFrame ==
    /\ pc = "video_write"
    /\ frame_processor.frame_count < clip.frames
    /\ frame_processor' =
           [frame_processor EXCEPT !.frame_count = frame_processor.frame_count + 1]
    /\ ran' = ran \cup {"execute"}
    /\ IF frame_processor.total_frames = 0
       THEN /\ raised' = "ZeroDivisionError"
            /\ pc' = "done"
            /\ UNCHANGED progress_bar
       ELSE /\ progress_bar' =
                   Append(progress_bar,
                          FrameProgress(frame_processor'.frame_count,
                                        frame_processor.total_frames))
            /\ UNCHANGED <<raised, pc>>
    /\ UNCHANGED <<session_state, media_type, uploaded_files, model_config,
                   process_button, clip, model_instance, processed_images,
                   tmp_files, leaked, shown, started>>

\* app.py:267-274: write_videofile raises (codec or container error).
EncodeFails ==
    /\ pc = "video_write"
    /\ raised' = "EncodeError"
    /\ ran' = ran \cup {"encode"}
    /\ pc' = "done"
    /\ UNCHANGED <<session_state, media_type, uploaded_files, model_config,
                   process_button, clip, model_instance, processed_images,
                   frame_processor, progress_bar, tmp_files, leaked, shown, started>>

\* app.py:275-297: every frame is written; cache the bytes, remove the
\* temporary files, display.
FinishVideo ==
    /\ pc = "video_write"
    /\ frame_processor.frame_count = clip.frames
    /\ session_state' =
           Put(session_state, "video_bytes",
               VideoBytes(model_instance, frame_processor.frame_count))
    /\ tmp_files' = (tmp_files \ {"video_path"}) \ {"tfile"}
    /\ ran' = ran \cup {"encode"}
    /\ shown' = "Video"
    /\ pc' = "done"
    /\ UNCHANGED <<media_type, uploaded_files, model_config, process_button,
                   clip, model_instance, processed_images, frame_processor,
                   progress_bar, leaked, raised, started>>

\* app.py:327-328: main() has returned or raised; the run's locals are gone,
\* the session and the files on disk stay.  The next run reads the widgets
\* anew.
EndRun ==
    /\ pc = "done"
    /\ pc' = "idle"
    /\ leaked' = leaked \cup tmp_files
    /\ tmp_files' = {}
    /\ media_type' = "Images"
    /\ uploaded_files' = <<>>
    /\ model_config' = "Model A"
    /\ process_button' = FALSE
    /\ clip' = None
    /\ model_instance' = None
    /\ processed_images' = <<>>
    /\ frame_processor' = None
    /\ progress_bar' = <<>>
    /\ shown' = "none"
    /\ raised' = "none"
    /\ ran' = {}
    /\ started' = session_state
    /\ UNCHANGED session_state

\* The upload lists the two uploaders can hand over (app.py:116-129).
UploadLists(mt) ==
    IF mt = "Images" THEN SeqsUpTo(ImageUploads, MaxUploads)
    ELSE {<<>>} \cup {<<f>> : f \in VideoUploads}

TransformIdle ==
    /\ timage = None
    /\ tmodel = None
    /\ tresult = None

Init == SessionInit /\ TransformIdle

\* A user interaction starts a script run, the selection drawn from names.
Interaction(names) ==
    \E mt \in MediaTypes, mc \in names, btn \in BOOLEAN :
        \E files \in UploadLists(mt) : BeginRun(mt, files, mc, btn)

\* The application as the browser drives it: the selection is one of the
\* selectbox's options.
Next ==
    \/ Interaction(SelectboxOptions) /\ UNCHANGED transformVars
    \/ ProcessImage /\ UNCHANGED transformVars
    \/ FinishImages /\ UNCHANGED transformVars
    \/ OpenClip /\ UNCHANGED transformVars
    \/ OpenClipFails /\ UNCHANGED transformVars
    \/ ProcessFrame /\ UNCHANGED transformVars
    \/ EncodeFails /\ UNCHANGED transformVars
    \/ FinishVideo /\ UNCHANGED transformVars
    \/ EndRun /\ UNCHANGED transformVars

Spec == Init /\ [][Next]_vars

\* main() with the selection taken as an input of its dispatch: any name.
NextAnySelection ==
    \/ Interaction(ModelNames) /\ UNCHANGED transformVars
    \/ ProcessImage /\ UNCHANGED transformVars
    \/ FinishImages /\ UNCHANGED transformVars
    \/ OpenClip /\ UNCHANGED transformVars
    \/ OpenClipFails /\ UNCHANGED transformVars
    \/ ProcessFrame /\ UNCHANGED transformVars
    \/ EncodeFails /\ UNCHANGED transformVars
    \/ FinishVideo /\ UNCHANGED transformVars
    \/ EndRun /\ UNCHANGED transformVars

SpecAnySelection == Init /\ [][NextAnySelection]_vars

(***************************************************************************)
(* Binary floating point.  Python floats are IEEE-754 doubles: the         *)
(* literals 0.10 ... 0.90 of the execute methods are the doubles nearest   *)
(* to them, and width * 0.70 is the exact product rounded to 53            *)
(* significant bits (ties to even) before int() truncates it.  A double is *)
(* m * 2^-e here, its 53-bit significand m written in four 16-bit limbs,   *)
(* least significant first.                                                *)
(***************************************************************************)
Limb == 2^16

Double(l0, l1, l2, l3, e) == [m |-> <<l0, l1, l2, l3>>, e |-> e]

\* The exact product of a significand and a natural number n < 2^15, in
\* five limbs.
MulLimbs(m, n) ==
    LET p0 == m[1] * n
        p1 == m[2] * n + p0 \div Limb
        p2 == m[3] * n + p1 \div Limb
        p3 == m[4] * n + p2 \div Limb
    IN <<p0 % Limb, p1 % Limb, p2 % Limb, p3 % Limb, p3 \div Limb>>

RECURSIVE BitLen(_)
BitLen(x) == IF x = 0 THEN 0 ELSE 1 + BitLen(x \div 2)

\* The number of significant bits of a five-limb number.
BitLenLimbs(p) ==
    IF p[5] # 0 THEN 64 + BitLen(p[5])
    ELSE IF p[4] # 0 THEN 48 + BitLen(p[4])
    ELSE IF p[3] # 0 THEN 32 + BitLen(p[3])
    ELSE IF p[2] # 0 THEN 16 + BitLen(p[2])
    ELSE BitLen(p[1])

\* p + d for 0 <= d <= 2^15, carries propagated.
AddSmall(p, d) ==
    LET s0 == p[1] + d
        s1 == p[2] + s0 \div Limb
        s2 == p[3] + s1 \div Limb
        s3 == p[4] + s2 \div Limb
    IN <<s0 % Limb, s1 % Limb, s2 % Limb, s3 % Limb, p[5] + s3 \div Limb>>

\* Round to 53 significant bits, to nearest, ties to even: the k low bits
\* (k <= 15) are dropped and the rest is incremented when they exceed half,
\* or equal half with the kept part odd.
RoundToDouble(p) ==
    LET k == BitLenLimbs(p) - 53
    IN IF k <= 0 THEN p
       ELSE LET r == p[1] % (2^k)
                half == 2^(k - 1)
                odd == (p[1] \div (2^k)) % 2 = 1
                up == r > half \/ (r = half /\ odd)
                cleared == <<p[1] - r, p[2], p[3], p[4], p[5]>>
            IN IF up THEN AddSmall(cleared, 2^k) ELSE cleared

\* int(n * d) for a natural n and a double d with 53 <= d.e <= 56.
IntOfProduct(n, d) ==
    LET p == RoundToDouble(MulLimbs(d.m, n))
    IN p[4] \div (2^(d.e - 48)) + p[5] * (2^(64 - d.e))

\* The float literals of the execute methods.
F025 == Double(0, 0, 0, 16, 54)                \* 0.25 = 0x1.0000000000000p-2
F075 == Double(0, 0, 0, 24, 53)                \* 0.75 = 0x1.8000000000000p-1
F010 == Double(39322, 39321, 39321, 25, 56)    \* 0.10 = 0x1.999999999999ap-4
F090 == Double(52429, 52428, 52428, 28, 53)    \* 0.90 = 0x1.ccccccccccccdp-1
F040 == Double(39322, 39321, 39321, 25, 54)    \* 0.40 = 0x1.999999999999ap-2
F060 == Double(13107, 13107, 13107, 19, 53)    \* 0.60 = 0x1.3333333333333p-1
F030 == Double(13107, 13107, 13107, 19, 54)    \* 0.30 = 0x1.3333333333333p-2
F070 == Double(26214, 26214, 26214, 22, 53)    \* 0.70 = 0x1.6666666666666p-1

(***************************************************************************)
(* The Transform variants (models.py; app.py:50-106 repeats A, B and C).   *)
(* An image is its width, its height and a pixel for every <<x, y>>.       *)
(***************************************************************************)
Classes == {"ModelA", "ModelB", "ModelC", "CustomModel"}

\* models.py:35-36, 56-57, 77-78, 100-101: the relative corners.
RelativeCorners(class) ==
    CASE class = "ModelA" -> <<F025, F075>>
      [] class = "ModelB" -> <<F010, F090>>
      [] class = "ModelC" -> <<F040, F060>>
      [] class = "CustomModel" -> <<F030, F070>>

\* models.py:30, 51, 72, 95: the default of params.get("color", ...).
DefaultColor(class) ==
    CASE class = "ModelA" -> <<0, 255, 0>>
      [] class = "ModelB" -> <<255, 0, 0>>
      [] class = "ModelC" -> <<0, 0, 255>>
      [] class = "CustomModel" -> <<255, 255, 255>>

\* dict.get(key, default)
DictGet(d, key, default) == IF key \in DOMAIN d THEN d[key] ELSE default

\* models.py:38: the thickness handed to cv2.rectangle.
Thickness == 5

\* A filled rectangle (what a negative thickness asks of cv2.rectangle).
OnEdgeFilled(q, pt1, pt2, thickness) ==
    /\ pt1[1] <= q[1] /\ q[1] <= pt2[1]
    /\ pt1[2] <= q[2] /\ q[2] <= pt2[2]

\* cv2.rectangle(img, pt1, pt2, color, thickness): the four edges of the
\* rectangle pt1-pt2 drawn as lines of the given thickness centred on the
\* edge; what falls outside the image is clipped.
OnEdge(q, pt1, pt2, thickness) ==
    LET half == thickness \div 2
        x == q[1]
        y == q[2]
        spanX == pt1[1] - half <= x /\ x <= pt2[1] + half
        spanY == pt1[2] - half <= y /\ y <= pt2[2] + half
        near(a, b) == a - half <= b /\ b <= a + half
    IN \/ (spanX /\ near(pt1[2], y))
       \/ (spanX /\ near(pt2[2], y))
       \/ (spanY /\ near(pt1[1], x))
       \/ (spanY /\ near(pt2[1], x))

Rectangle(img, pt1, pt2, color, thickness) ==
    [img EXCEPT !.px = [q \in DOMAIN img.px |->
                            IF OnEdge(q, pt1, pt2, thickness)
                            THEN color ELSE img.px[q]]]

\* models.py:29-40, 50-61, 71-82, 94-105: execute.  The result carries the
\* corners handed to cv2.rectangle beside the image returned.
Execute(class, params, image) ==
    LET color == DictGet(params, "color", DefaultColor(class))
        processed_image == image
        height == processed_image.height
        width == processed_image.width
        f == RelativeCorners(class)
        pt1 == <<IntOfProduct(width, f[1]), IntOfProduct(height, f[1])>>
        pt2 == <<IntOfProduct(width, f[2]), IntOfProduct(height, f[2])>>
    IN [image |-> Rectangle(processed_image, pt1, pt2, color, Thickness),
        pt1 |-> pt1, pt2 |-> pt2]

\* The image sides tried: the small ones, and 90 and 100.
Dims == (4..MaxDim) \cup {90, 100}

MakeImage(w, h) ==
    [width |-> w, height |-> h,
     px |-> [q \in (0..(w - 1)) \X (0..(h - 1)) |-> <<q[1] % 256, q[2] % 256, 7>>]]

TransformParams == {[color |-> <<10, 20, 30>>], [checkpoint_file |-> "ckpt"]}

TransformInit ==
    /\ timage \in {MakeImage(w, h) : w \in Dims, h \in Dims}
    /\ tmodel \in [class : Classes, params : TransformParams]
    /\ tresult = None

\* model_instance.execute(image)
ExecuteImage ==
    /\ tresult = None
    /\ tresult' = Execute(tmodel.class, tmodel.params, timage)
    /\ UNCHANGED <<timage, tmodel>>

InitTransform == SessionInit /\ TransformInit

NextTransform == ExecuteImage /\ UNCHANGED sessionVars

SpecTransform == InitTransform /\ [][NextTransform]_vars

(***************************************************************************)
(* Vocabulary of the claims.                                               *)
(***************************************************************************)
\* This run is a processing request: Process pressed with uploads present.
Requested == process_button /\ uploaded_files # <<>>

\* The run is over (main() returned or raised) and its locals are still there.
Done == pc = "done"

\* The request failed: the error of the invalid selection, or an exception.
Failed == Done /\ Requested /\ (shown = "error" \/ raised # "none")

\* The request ran to its end.
Succeeded == Done /\ Requested /\ shown = media_type /\ raised = "none"

\* Fractions <<n, d>> with d > 0, compared by cross multiplication.
FracLeq(a, b) == a[1] * b[2] <= b[1] * a[2]
FracIsOne(a) == a[1] = a[2]

\* Python round() of num / den: to the nearest integer, ties to the even one.
RoundHalfEven(num, den) ==
    LET q == num \div den
        r == num % den
    IN IF 2 * r < den THEN q
       ELSE IF 2 * r > den THEN q + 1
       ELSE IF q % 2 = 0 THEN q ELSE q + 1

\* The units of work this job has processed: images appended, frames counted.
UnitsDone ==
    IF media_type = "Images" THEN Len(processed_images)
    ELSE IF frame_processor = None THEN 0 ELSE frame_processor.frame_count

\* The denominator of the job's progress.
UnitsTotal ==
    IF media_type = "Images" THEN Len(uploaded_files)
    ELSE IF frame_processor = None THEN 0 ELSE frame_processor.total_frames

(***************************************************************************)
(* C1: every end state of a video request has deleted both temporary       *)
(* files, the input file and the output .mp4, also after a failure.        *)
(* The code removes them only on the path that reaches app.py:285-286.     *)
(***************************************************************************)
C1_TempFilesDeletedOnEveryExit ==
    (Done /\ Requested /\ media_type = "Video") => tmp_files = {}

(***************************************************************************)
(* C2: a failed processing request leaves the session's cached result      *)
(* (processed, media_type, processed_images, zip_bytes, video_bytes) as it *)
(* was when the request started.  The code clears it at app.py:175-179,    *)
(* before anything can fail.                                               *)
(***************************************************************************)
C2_FailureLeavesCacheUntouched == Failed => session_state = started

(***************************************************************************)
(* C3: Process pressed with uploads and a model name that is none of the   *)
(* known variants: the error is shown, no Transform is constructed, and no *)
(* decode, transform or encode step runs; the run ends there.              *)
(***************************************************************************)
C3_InvalidSelectionDoesNoWork ==
    (pc # "idle" /\ Requested
       /\ model_config \notin {"Model A", "Model B", "Model C", "Custom Model"})
    => /\ pc = "done"
       /\ shown = "error"
       /\ raised = "none"
       /\ model_instance = None
       /\ ran = {}
       /\ processed_images = <<>>
       /\ progress_bar = <<>>
       /\ frame_processor = None
       /\ tmp_files = {}

C3_Witness ==
    Done /\ Requested /\ model_config = "Model X" /\ shown = "error"

(***************************************************************************)
(* C4: Process pressed with no uploaded files: the warning is shown, no    *)
(* exception is raised, no Transform is constructed, no pipeline step      *)
(* runs, and the session is as it was, whatever it held before.            *)
(***************************************************************************)
C4_MissingUploadOnlyWarns ==
    (pc # "idle" /\ process_button /\ uploaded_files = <<>>)
    => /\ pc = "done"
       /\ shown = "warning"
       /\ raised = "none"
       /\ model_instance = None
       /\ ran = {}
       /\ progress_bar = <<>>
       /\ tmp_files = {}
       /\ session_state = started

\* The warning over a session whose processed flag is set but whose cached
\* result is gone.
C4_Witness ==
    /\ Done /\ process_button /\ uploaded_files = <<>> /\ shown = "warning"
    /\ session_state["processed"] = TRUE
    /\ "processed_images" \notin DOMAIN session_state
    /\ "video_bytes" \notin DOMAIN session_state

(***************************************************************************)
(* C5: the image pipeline keeps upload order and names: while it runs,     *)
(* result i carries the name and the content of upload i; when it has run, *)
(* the cached list and the archive each hold one entry per upload, in      *)
(* upload order, under the upload's own name, repeated names included.     *)
(***************************************************************************)
C5_ImagesKeepOrderAndNames ==
    /\ (pc # "idle" /\ Requested /\ media_type = "Images")
       => /\ Len(processed_images) <= Len(uploaded_files)
          /\ \A i \in 1..Len(processed_images) :
                 /\ processed_images[i][1] = uploaded_files[i].name
                 /\ processed_images[i][2].of = uploaded_files[i].data
    /\ (Succeeded /\ media_type = "Images")
       => /\ session_state["processed_images"] = processed_images
          /\ Len(processed_images) = Len(uploaded_files)
          /\ Len(session_state["zip_bytes"]) = Len(uploaded_files)
          /\ \A i \in 1..Len(uploaded_files) :
                 /\ session_state["zip_bytes"][i].arcname = uploaded_files[i].name
                 /\ session_state["zip_bytes"][i].data = processed_images[i][2]

\* Two uploads of the same name, both archived under it.
C5_Witness ==
    /\ Succeeded /\ media_type = "Images" /\ Len(uploaded_files) = 2
    /\ uploaded_files[1].name = uploaded_files[2].name
    /\ Len(session_state["zip_bytes"]) = 2
    /\ session_state["zip_bytes"][1].arcname = session_state["zip_bytes"][2].arcname

(***************************************************************************)
(* C6: within a job a progress fraction is reported after each unit of     *)
(* work (image or frame); the fractions never decrease, are above 0 and at *)
(* most 1, the one after unit i is i/total for images and                  *)
(* min(i/total_frames, 1) for video, and the one after the last unit of a  *)
(* finished job is exactly 1.                                              *)
(***************************************************************************)
C6_ProgressAfterEachUnit ==
    (pc # "idle" /\ Requested /\ model_instance # None)
    => /\ Len(progress_bar) = UnitsDone
       /\ \A i \in 1..Len(progress_bar) :
              /\ progress_bar[i][2] > 0
              /\ progress_bar[i][1] > 0
              /\ progress_bar[i][1] <= progress_bar[i][2]
              /\ IF media_type = "Video" /\ i >= UnitsTotal
                 THEN FracIsOne(progress_bar[i])
                 ELSE progress_bar[i][1] * UnitsTotal = i * progress_bar[i][2]
              /\ i > 1 => FracLeq(progress_bar[i - 1], progress_bar[i])
       /\ Succeeded => /\ progress_bar # <<>>
                       /\ FracIsOne(progress_bar[Len(progress_bar)])

(***************************************************************************)
(* C7 as stated: total_frames is the declared frame count when present and *)
(* nonzero, else round(fps * duration).                                    *)
(***************************************************************************)
C7_TotalFramesRounds ==
    frame_processor # None
    => frame_processor.total_frames =
           IF clip.nframes.present /\ clip.nframes.count # 0
           THEN clip.nframes.count
           ELSE RoundHalfEven(clip.fps * clip.durq, 4)

(***************************************************************************)
(* C7 as amended: total_frames is the declared frame count when present    *)
(* and nonzero, else fps * duration truncated to an integer: the n with    *)
(* n <= fps * duration < n + 1.                                            *)
(***************************************************************************)
C7_TotalFramesTruncates ==
    frame_processor # None
    => LET n == frame_processor.total_frames
       IN IF clip.nframes.present /\ clip.nframes.count # 0
          THEN n = clip.nframes.count
          ELSE /\ 4 * n <= clip.fps * clip.durq
               /\ clip.fps * clip.durq < 4 * (n + 1)

\* Declared 0 with fps = 30 and duration = 2.0 gives 60.
C7_Witness ==
    /\ frame_processor # None
    /\ clip.nframes.present /\ clip.nframes.count = 0
    /\ clip.fps = 30 /\ clip.durq = 8
    /\ frame_processor.total_frames = 60

(***************************************************************************)
(* C8: for every variant and every image of width W >= 4 and height        *)
(* H >= 4, execute returns an image of the same W and H, the rectangle's   *)
(* corners are (floor(W*f1), floor(H*f1)) and (floor(W*f2), floor(H*f2))   *)
(* for the variant's fractions (A 0.25/0.75, B 0.10/0.90, C 0.40/0.60,     *)
(* Custom 0.30/0.70), both corners lie inside the image, and every pixel   *)
(* outside the rectangle's outline equals the input pixel.                 *)
(***************************************************************************)
C8_RectangleAtFloorCorners ==
    tresult # None
    => LET W == timage.width
           H == timage.height
           pct == CASE tmodel.class = "ModelA" -> <<25, 75>>
                    [] tmodel.class = "ModelB" -> <<10, 90>>
                    [] tmodel.class = "ModelC" -> <<40, 60>>
                    [] tmodel.class = "CustomModel" -> <<30, 70>>
           x1 == (W * pct[1]) \div 100
           y1 == (H * pct[1]) \div 100
           x2 == (W * pct[2]) \div 100
           y2 == (H * pct[2]) \div 100
           outline(q) ==
               /\ x1 - 2 <= q[1] /\ q[1] <= x2 + 2
               /\ y1 - 2 <= q[2] /\ q[2] <= y2 + 2
               /\ ~(x1 + 2 < q[1] /\ q[1] < x2 - 2 /\ y1 + 2 < q[2] /\ q[2] < y2 - 2)
       IN /\ tresult.image.width = W
          /\ tresult.image.height = H
          /\ DOMAIN tresult.image.px = DOMAIN timage.px
          /\ tresult.pt1 = <<x1, y1>>
          /\ tresult.pt2 = <<x2, y2>>
          /\ 0 <= x1 /\ x1 <= x2 /\ x2 < W
          /\ 0 <= y1 /\ y1 <= y2 /\ y2 < H
          /\ \A q \in DOMAIN timage.px :
                 ~outline(q) => tresult.image.px[q] = timage.px[q]

(***************************************************************************)
(* C8 as amended: as C8, with the corners int(W*f), int(H*f) of the        *)
(* products in double precision: each is floor(W*f) resp. floor(H*f) for   *)
(* A, B, C and for Custom's 0.30; for Custom's 0.70 it is floor(0.70*D),   *)
(* or one less than it where 0.70*D is a whole number (D = 90 gives 62);   *)
(* the outline is the one around the corners drawn.                        *)
(***************************************************************************)
C8_RectangleAtDoubleCorners ==
    tresult # None
    => LET W == timage.width
           H == timage.height
           pct == CASE tmodel.class = "ModelA" -> <<25, 75>>
                    [] tmodel.class = "ModelB" -> <<10, 90>>
                    [] tmodel.class = "ModelC" -> <<40, 60>>
                    [] tmodel.class = "CustomModel" -> <<30, 70>>
           x1 == tresult.pt1[1]
           y1 == tresult.pt1[2]
           x2 == tresult.pt2[1]
           y2 == tresult.pt2[2]
           isFloor(c, D, p) == 100 * c <= D * p /\ D * p < 100 * (c + 1)
           oneLess(c, D, p) ==
               tmodel.class = "CustomModel" /\ p = 70 /\ 100 * (c + 1) = D * p
           outline(q) ==
               /\ x1 - 2 <= q[1] /\ q[1] <= x2 + 2
               /\ y1 - 2 <= q[2] /\ q[2] <= y2 + 2
               /\ ~(x1 + 2 < q[1] /\ q[1] < x2 - 2 /\ y1 + 2 < q[2] /\ q[2] < y2 - 2)
       IN /\ tresult.image.width = W
          /\ tresult.image.height = H
          /\ DOMAIN tresult.image.px = DOMAIN timage.px
          /\ isFloor(x1, W, pct[1])
          /\ isFloor(y1, H, pct[1])
          /\ isFloor(x2, W, pct[2]) \/ oneLess(x2, W, pct[2])
          /\ isFloor(y2, H, pct[2]) \/ oneLess(y2, H, pct[2])
          /\ 0 <= x1 /\ x1 <= x2 /\ x2 < W
          /\ 0 <= y1 /\ y1 <= y2 /\ y2 < H
          /\ \A q \in DOMAIN timage.px :
                 ~outline(q) => tresult.image.px[q] = timage.px[q]

\* The Custom variant on an image 90 wide: the right edge is drawn at 62.
C8_Witness ==
    /\ tresult # None
    /\ tmodel.class = "CustomModel"
    /\ timage.width = 90
    /\ tresult.pt2[1] = 62
    /\ \E q \in DOMAIN timage.px : tresult.image.px[q] # timage.px[q]

(***************************************************************************)
(* C9: whenever the processed flag is true at the start of an interaction, *)
(* the cached result of the stored media_type is present: processed_images *)
(* and zip_bytes for Images, video_bytes for Video.                        *)
(***************************************************************************)
C9_ProcessedImpliesCached ==
    (pc = "idle" /\ ShouldRedisplay(session_state))
    => RedisplayKeys(session_state) \subseteq DOMAIN session_state

(***************************************************************************)
(* C10: whenever FrameProcessor.process has been invoked, total_frames is  *)
(* at least 1, for every declared count, fps and duration.                 *)
(***************************************************************************)
C10_TotalFramesAtLeastOne ==
    (frame_processor # None /\ frame_processor.frame_count >= 1)
    => frame_processor.total_frames >= 1

=============================================================================
